---- MODULE Spec2Model ----
(***************************************************************************)
(* Session / profile reconciliation of the nirvaha web client.             *)
(*                                                                         *)
(* The model follows src/src/contexts/AuthContext.jsx.  The AuthProvider   *)
(* keeps four pieces of React state (currentUser, userProfile, loading,    *)
(* error) and a closure flag `mounted`.  Every async function of the       *)
(* provider is a coroutine: it runs synchronously up to an `await` on a    *)
(* call to the hosted backend, is suspended, and is resumed with the       *)
(* response.  JavaScript is single threaded, so one step of the model is   *)
(* either                                                                  *)
(*   - the start of an operation (its code up to the first await),         *)
(*   - the backend serving one outstanding call (Serve), or                *)
(*   - the resumption of one coroutine (its code from the await that was   *)
(*     answered up to the next await or to its return).                    *)
(* Text (emails, usernames) is a tuple of one-character strings, so that   *)
(* email.split('@')[0] is computed and not assumed.                        *)
(***************************************************************************)
EXTENDS Integers, Sequences, FiniteSets, TLC

(***************************************************************************)
(* Bounds                                                                  *)
(***************************************************************************)
\* operations a run starts besides the initial initAuth
MaxOps == 1
\* backend calls that fail for a reason of the transport or the service
MaxFaults == 1

Tasks == 0 .. MaxOps

(***************************************************************************)
(* Values                                                                  *)
(***************************************************************************)
Null == [null |-> TRUE]

NoResp  == [st |-> "none", data |-> Null, msg |-> "null"]
Pending == [st |-> "pending", data |-> Null, msg |-> "null"]
Ok(d)   == [st |-> "ok", data |-> d, msg |-> "null"]
Err(m)  == [st |-> "err", data |-> Null, msg |-> m]
Reject(m) == [st |-> "reject", data |-> Null, msg |-> m]

\* the texts of the run
MailA  == <<"a", "@", "x">>
MailB  == <<"b", "@", "x">>
Empty  == <<>>
NameB  == <<"b">>
NameN  == <<"n">>

\* the identity of an OAuth sign-in: no username in user_metadata,
\* app_metadata.provider = 'google'
Google1 == [id |-> 2, email |-> MailB, provider |-> "google", username |-> Empty]

\* the identity the auth service creates for a password registration
EmailUser(email, hint) ==
  [id |-> 1, email |-> email, provider |-> "email", username |-> hint]

SignupEmails == {MailA}
UsernameHints == {Empty, NameB}
LoginNames == {NameB}
AuthEvents == {"SIGNED_IN", "SIGNED_OUT", "USER_UPDATED", "TOKEN_REFRESHED"}

\* error texts of AuthContext.jsx
NoError == "null"
FetchFailed == "Failed to fetch user profile. Please try again later."
CreateFailed == "Failed to create user profile. Please try again."
UsernameTaken == "Email already used or username already taken."
UsernameNotFound == "Username not found"
ProfileLoadFailed == "Failed to load user profile"
CredentialsRequired == "Either email or username is required"
NotAuthenticated == "User not authenticated"
\* error texts of the backend
InvalidCredentials == "Invalid login credentials"
AlreadyRegistered == "User already registered"
ServiceFault == "network error"

(***************************************************************************)
(* State                                                                   *)
(***************************************************************************)
VARIABLES
  currentUser,   \* useState: identity or Null
  userProfile,   \* useState: profile row or Null
  loading,       \* useState: BOOLEAN
  error,         \* useState: error text or NoError
  mounted,       \* the closure flag of the provider's effect
  tasks,         \* the coroutines: one record per task slot
  profiles,      \* backend: the rows of table 'profiles', in insertion order
  accounts,      \* backend: identities registered with the auth service
  session,       \* backend: the identity of the persisted session, or Null
  faults,        \* number of calls that have failed so far
  budget,        \* number of operations the run may still start
  stats,         \* Profile page: its sessions, clock and statistics
  form,          \* Auth page: the form, its debounce timer and its toast
  nav            \* router: the path shown and the navigations under way

vars == <<currentUser, userProfile, loading, error, mounted, tasks,
          profiles, accounts, session, faults, budget, stats, form, nav>>
client == <<currentUser, userProfile, loading, error>>
pages == <<stats, form, nav>>
backend == <<profiles, accounts, session, faults>>

Sess == [currentUser |-> currentUser, userProfile |-> userProfile,
         loading |-> loading, error |-> error]

Commit(s) ==
  /\ currentUser' = s.currentUser
  /\ userProfile' = s.userProfile
  /\ loading' = s.loading
  /\ error' = s.error

Idle == [op |-> "idle", pc |-> "idle", call |-> "none", carg |-> Null,
         resp |-> NoResp, user |-> Null, ev |-> "none", arg |-> Null,
         outcome |-> "none", thrown |-> "null", ret |-> Null,
         reconciled |-> 0, authCalls |-> 0,
         upserted |-> FALSE, torn |-> FALSE, taken |-> FALSE,
         nullSession |-> FALSE, upFault |-> FALSE]
\* nullSession: the callback was given an event without a session; upFault:
\* a call of upsertProfile made by this task has failed
\* op: the function; pc: the await it is suspended on; call, carg, resp: the
\* backend call, its argument and its response; user, ev, arg: the locals;
\* outcome, thrown: how it ended; ret: what upsertProfile (or the re-fetch
\* of updateProfile) returned to it; reconciled: the id of the identity its
\* upsertProfile ran for (0: none); authCalls: the calls it made to
\* supabase.auth.signInWithPassword / signUp.
\* Three fields only record the run: upserted (its upsertProfile sent the
\* upsert), torn (the provider was torn down when it was invoked), taken
\* (the store held the username hint when signup was called).

\* suspend coroutine k on a backend call
Await(k, pc, call, carg) ==
  [k EXCEPT !.pc = pc, !.call = call, !.carg = carg, !.resp = Pending]

\* coroutine k returns (outcome "resolved") or throws (outcome "rejected")
Finish(k, outcome, thrown, ret) ==
  [k EXCEPT !.pc = "done", !.call = "none", !.carg = Null, !.resp = NoResp,
            !.user = Null, !.arg = Null, !.ev = "none",
            !.outcome = outcome, !.thrown = thrown, !.ret = ret]

Answered(k) == k.resp.st \in {"ok", "err", "reject"}

(***************************************************************************)
(* Pure helpers                                                            *)
(***************************************************************************)
\* email.split('@')[0]
RECURSIVE LocalPart(_)
LocalPart(e) ==
  IF e = <<>> THEN <<>>
  ELSE IF Head(e) = "@" THEN <<>>
  ELSE <<Head(e)>> \o LocalPart(Tail(e))

\* a row whose username is the whole email address
NewRow_WholeEmail(user) ==
  LET provider == IF user.provider = "" THEN "email" ELSE user.provider
      username == IF user.username = Empty /\ provider # "email"
                  THEN user.email
                  ELSE user.username
  IN [id |-> user.id, email |-> user.email, username |-> username,
      name |-> Empty, provider |-> provider]

\* the row upsertProfile builds for a user without a profile
NewRow(user) ==
  LET provider == IF user.provider = "" THEN "email" ELSE user.provider
      username == IF user.username = Empty /\ provider # "email"
                  THEN LocalPart(user.email)
                  ELSE user.username
  IN [id |-> user.id, email |-> user.email, username |-> username,
      name |-> Empty, provider |-> provider]

\* .eq(col, v).single(): the one matching row, an error for none or several
RowsById(id) == SelectSeq(profiles, LAMBDA r : r.id = id)
RowsByUsername(u) == SelectSeq(profiles, LAMBDA r : r.username = u)
Single(rows) ==
  IF Len(rows) = 1 THEN Ok(rows[1]) ELSE Err("PGRST116")

\* a store that inserts without a conflict target
UpsertRows_Insert(rows, row) == Append(rows, row)

\* .upsert(row, { onConflict: 'id' }): insert, or on a row with the same id
\* replace the columns given (the client library's default resolution is
\* merge-duplicates; the call does not pass ignoreDuplicates)
UpsertRows(rows, row) ==
  IF \E i \in 1 .. Len(rows) : rows[i].id = row.id
  THEN [i \in 1 .. Len(rows) |-> IF rows[i].id = row.id THEN row ELSE rows[i]]
  ELSE Append(rows, row)

\* .update(data).eq('id', id)
UpdateRows(rows, id, data) ==
  [i \in 1 .. Len(rows) |->
     IF rows[i].id = id THEN data @@ rows[i] ELSE rows[i]]

(***************************************************************************)
(* The backend: the profile store and the auth service                     *)
(***************************************************************************)
Reply(resp) ==
  [resp |-> resp, profiles |-> profiles, accounts |-> accounts,
   session |-> session]

\* what the backend does with the call coroutine k is suspended on
ServeResult(k) ==
  CASE k.call = "selectById" -> Reply(Single(RowsById(k.carg)))
    [] k.call = "selectByUsername" -> Reply(Single(RowsByUsername(k.carg)))
    [] k.call = "upsert" ->
         [Reply(Ok(Null)) EXCEPT !.profiles = UpsertRows(profiles, k.carg)]
    [] k.call = "update" ->
         [Reply(Ok(Null)) EXCEPT
            !.profiles = UpdateRows(profiles, k.carg.id, k.carg.data)]
    [] k.call = "getSession" -> Reply(Ok(session))
    [] k.call = "signInWithPassword" ->
         LET m == {a \in accounts : a.email = k.carg.email} IN
         IF k.carg.pwOk /\ m # {}
         THEN LET u == CHOOSE a \in m : TRUE IN
              [Reply(Ok(u)) EXCEPT !.session = u]
         ELSE Reply(Err(InvalidCredentials))
    [] k.call = "signUp" ->
         IF \E a \in accounts : a.email = k.carg.email
         THEN Reply(Err(AlreadyRegistered))
         ELSE LET u == EmailUser(k.carg.email, k.carg.hint) IN
              [Reply(Ok(u)) EXCEPT !.accounts = accounts \cup {u}]
    [] k.call = "signOut" -> [Reply(Ok(Null)) EXCEPT !.session = Null]
    [] k.call = "signInWithOAuth" -> Reply(Ok([url |-> "oauth"]))
    [] OTHER -> Reply(Ok(Null))

\* the backend answers the outstanding call of task t
Serve(t) ==
  /\ tasks[t].resp.st = "pending"
  /\ LET r == ServeResult(tasks[t]) IN
       /\ tasks' = [tasks EXCEPT ![t].resp = r.resp]
       /\ profiles' = r.profiles
       /\ accounts' = r.accounts
       /\ session' = r.session
  /\ UNCHANGED <<pages, client, mounted, faults, budget>>

\* k is suspended inside upsertProfile
InUpsert(k) == k.pc \in {"up_fetch1", "up_upsert", "up_fetch2"}

\* the call of task t fails without effect: the service reports an error
\* ({ error }) or the client library's promise rejects
Fault(t) ==
  /\ tasks[t].resp.st = "pending"
  /\ faults < MaxFaults
  /\ \E r \in {Err(ServiceFault), Reject(ServiceFault)} :
       tasks' = [tasks EXCEPT ![t].resp = r,
                              ![t].upFault = @ \/ InUpsert(tasks[t])]
  /\ faults' = faults + 1
  /\ UNCHANGED <<pages, client, mounted, profiles, accounts, session, budget>>

(***************************************************************************)
(* fetchUserProfile and upsertProfile                                      *)
(***************************************************************************)
FetchUnexpected == "An unexpected error occurred while fetching your profile."
CreateUnexpected == "An unexpected error occurred while creating your profile."

\* fetchUserProfile from its await on: s is the Session State it runs in,
\* r the response; yields the Session State it leaves and its return value
fetchUserProfile(s, r) ==
  CASE r.st = "err" -> [s |-> [s EXCEPT !.error = FetchFailed], ret |-> Null]
    [] r.st = "reject" ->
         [s |-> [s EXCEPT !.error = FetchUnexpected], ret |-> Null]
    [] OTHER -> [s |-> s, ret |-> r.data]

\* upsertProfile(user) up to its first await
upsertProfileStart(k, user) ==
  Await([k EXCEPT !.user = user], "up_fetch1", "selectById", user.id)

\* a reconcile that does not fetch the row it has created
upsertProfile_NoRefetch(s, k) ==
  CASE k.pc = "up_fetch1" ->
         LET f == fetchUserProfile(s, k.resp) IN
         IF f.ret # Null
         THEN [s |-> [f.s EXCEPT !.userProfile = f.ret],
               k |-> [k EXCEPT !.reconciled = k.user.id],
               done |-> TRUE, ret |-> f.ret]
         ELSE [s |-> f.s,
               k |-> Await([k EXCEPT !.upserted = TRUE], "up_upsert",
                           "upsert", NewRow(k.user)),
               done |-> FALSE, ret |-> Null]
    [] k.pc = "up_upsert" ->
         CASE k.resp.st = "err" ->
                [s |-> [s EXCEPT !.error = CreateFailed,
                                 !.userProfile = Null],
                 k |-> [k EXCEPT !.reconciled = k.user.id],
                 done |-> TRUE, ret |-> Null]
           [] k.resp.st = "reject" ->
                [s |-> [s EXCEPT !.error = CreateUnexpected],
                 k |-> [k EXCEPT !.reconciled = k.user.id],
                 done |-> TRUE, ret |-> Null]
           [] OTHER ->
                [s |-> [s EXCEPT !.userProfile = Null],
                 k |-> [k EXCEPT !.reconciled = k.user.id],
                 done |-> TRUE, ret |-> Null]
    [] k.pc = "up_fetch2" ->
         LET f == fetchUserProfile(s, k.resp) IN
         [s |-> [f.s EXCEPT !.userProfile = f.ret],
          k |-> [k EXCEPT !.reconciled = k.user.id],
          done |-> TRUE, ret |-> f.ret]

\* upsertProfile from the await k.pc that was answered: the Session State it
\* leaves, the coroutine, and (when done) its return value
upsertProfile(s, k) ==
  CASE k.pc = "up_fetch1" ->
         LET f == fetchUserProfile(s, k.resp) IN
         IF f.ret # Null
         THEN [s |-> [f.s EXCEPT !.userProfile = f.ret],
               k |-> [k EXCEPT !.reconciled = k.user.id],
               done |-> TRUE, ret |-> f.ret]
         ELSE [s |-> f.s,
               k |-> Await([k EXCEPT !.upserted = TRUE], "up_upsert",
                           "upsert", NewRow(k.user)),
               done |-> FALSE, ret |-> Null]
    [] k.pc = "up_upsert" ->
         CASE k.resp.st = "err" ->
                [s |-> [s EXCEPT !.error = CreateFailed,
                                 !.userProfile = Null],
                 k |-> [k EXCEPT !.reconciled = k.user.id],
                 done |-> TRUE, ret |-> Null]
           [] k.resp.st = "reject" ->
                [s |-> [s EXCEPT !.error = CreateUnexpected],
                 k |-> [k EXCEPT !.reconciled = k.user.id],
                 done |-> TRUE, ret |-> Null]
           [] OTHER ->
                [s |-> s,
                 k |-> Await(k, "up_fetch2", "selectById", k.user.id),
                 done |-> FALSE, ret |-> Null]
    [] k.pc = "up_fetch2" ->
         LET f == fetchUserProfile(s, k.resp) IN
         [s |-> [f.s EXCEPT !.userProfile = f.ret],
          k |-> [k EXCEPT !.reconciled = k.user.id],
          done |-> TRUE, ret |-> f.ret]


\* slot t can take a new coroutine: slot 0 is initAuth's, a slot is free
\* when it is idle or its coroutine has finished, and the first free slot
\* is the one taken
IsFree(k) == k.pc \in {"idle", "done"}
Free(t) ==
  /\ t > 0
  /\ budget > 0
  /\ IsFree(tasks[t])
  /\ \A u \in 1 .. (t - 1) : ~IsFree(tasks[u])

(***************************************************************************)
(* logout                                                                  *)
(***************************************************************************)
logoutStart(t) ==
  /\ mounted
  /\ Free(t)
  /\ Commit([Sess EXCEPT !.loading = TRUE, !.error = NoError])
  /\ tasks' = [tasks EXCEPT
       ![t] = Await([Idle EXCEPT !.op = "logout"], "signOut", "signOut", Null)]
  /\ budget' = budget - 1
  /\ UNCHANGED <<pages, mounted, backend>>

\* the coroutine and the Session State logout leaves when resumed
logoutResume(s, k) ==
  IF k.resp.st \in {"err", "reject"}
  THEN [s |-> [s EXCEPT !.error = k.resp.msg, !.loading = FALSE],
        k |-> Finish(k, "rejected", k.resp.msg, Null)]
  ELSE [s |-> [s EXCEPT !.currentUser = Null, !.userProfile = Null,
                        !.loading = FALSE],
        k |-> Finish(k, "resolved", "null", Null)]

logout(t) ==
  /\ tasks[t].op = "logout"
  /\ Answered(tasks[t])
  /\ LET n == logoutResume(Sess, tasks[t]) IN
       /\ Commit(n.s)
       /\ tasks' = [tasks EXCEPT ![t] = n.k]
  /\ UNCHANGED <<pages, mounted, backend, budget>>

(***************************************************************************)
(* login                                                                   *)
(***************************************************************************)
\* login({ email, username, password }) up to its first await; a is the
\* argument: email and username are texts (Empty when not given), pwOk tells whether the
\* password is the account's
loginBegin(s, a) ==
  LET k0 == [Idle EXCEPT !.op = "login", !.arg = a]
      s0 == [s EXCEPT !.loading = TRUE, !.error = NoError]
  IN IF a.email # Empty
     THEN [s |-> s0,
           k |-> Await([k0 EXCEPT !.authCalls = 1], "signIn",
                       "signInWithPassword",
                       [email |-> a.email, pwOk |-> a.pwOk])]
     ELSE IF a.username # Empty
     THEN [s |-> s0,
           k |-> Await(k0, "lookup", "selectByUsername", a.username)]
     ELSE [s |-> [s0 EXCEPT !.error = CredentialsRequired,
                            !.loading = FALSE],
           k |-> Finish(k0, "rejected", CredentialsRequired, Null)]

\* login fails: the catch block and the finally block
loginThrow(s, k, msg) ==
  [s |-> [s EXCEPT !.error = msg, !.loading = FALSE],
   k |-> Finish(k, "rejected", msg, Null)]

\* a login that goes on to the auth service although the lookup reported
\* an error
loginAfterLookup_IgnoreError(s, k) ==
  CASE k.resp.st = "reject" -> loginThrow(s, k, k.resp.msg)
    [] OTHER ->
         [s |-> s,
          k |-> Await([k EXCEPT !.authCalls = @ + 1], "signIn",
                      "signInWithPassword",
                      [email |-> IF k.resp.st = "ok" THEN k.resp.data.email
                                 ELSE Empty,
                       pwOk |-> k.arg.pwOk])]

\* login after the profile lookup by username
loginAfterLookup(s, k) ==
  CASE k.resp.st = "reject" -> loginThrow(s, k, k.resp.msg)
    [] k.resp.st = "err" -> loginThrow(s, k, UsernameNotFound)
    [] OTHER ->
         [s |-> s,
          k |-> Await([k EXCEPT !.authCalls = @ + 1], "signIn",
                      "signInWithPassword",
                      [email |-> k.resp.data.email, pwOk |-> k.arg.pwOk])]

\* login after signInWithPassword
loginAfterSignIn(s, k) ==
  IF k.resp.st \in {"err", "reject"}
  THEN loginThrow(s, k, k.resp.msg)
  ELSE [s |-> s, k |-> upsertProfileStart(k, k.resp.data)]

\* a login that does not look at what upsertProfile returned
loginAfterUpsert_NoCheck(s, k, profile) ==
  [s |-> [s EXCEPT !.loading = FALSE],
   k |-> Finish(k, "resolved", "null", profile)]

\* login after upsertProfile has returned profile in Session State s
loginAfterUpsert(s, k, profile) ==
  IF profile = Null THEN loginThrow(s, k, ProfileLoadFailed)
  ELSE [s |-> [s EXCEPT !.loading = FALSE],
        k |-> Finish(k, "resolved", "null", profile)]

\* login from the await k.pc that was answered
loginResume(s, k) ==
  CASE k.pc = "lookup" -> loginAfterLookup(s, k)
    [] k.pc = "signIn" -> loginAfterSignIn(s, k)
    [] InUpsert(k) ->
         LET u == upsertProfile(s, k) IN
         IF ~u.done THEN [s |-> u.s, k |-> u.k]
         ELSE loginAfterUpsert(u.s, u.k, u.ret)

loginStart(t) ==
  /\ mounted
  /\ Free(t)
  /\ \E e \in SignupEmails \cup {Empty}, n \in LoginNames \cup {Empty},
        p \in BOOLEAN :
       /\ e # Empty => n = Empty
       /\ LET b == loginBegin(Sess, [email |-> e, username |-> n, pwOk |-> p])
          IN /\ Commit(b.s)
             /\ tasks' = [tasks EXCEPT ![t] = b.k]
  /\ budget' = budget - 1
  /\ UNCHANGED <<pages, mounted, backend>>

login(t) ==
  /\ tasks[t].op = "login"
  /\ Answered(tasks[t])
  /\ LET n == loginResume(Sess, tasks[t]) IN
       /\ Commit(n.s)
       /\ tasks' = [tasks EXCEPT ![t] = n.k]
  /\ UNCHANGED <<pages, mounted, backend, budget>>

(***************************************************************************)
(* signup                                                                  *)
(***************************************************************************)
\* signup({ email, password, options }) up to its first await; a.hint is
\* options.data.username, Empty when none is given
signupBegin(s, a) ==
  LET k0 == [Idle EXCEPT !.op = "signup", !.arg = a,
                         !.taken = (RowsByUsername(a.hint) # <<>>)]
      s0 == [s EXCEPT !.loading = TRUE, !.error = NoError]
  IN IF a.hint # Empty
     THEN [s |-> s0,
           k |-> Await(k0, "checkUsername", "selectByUsername", a.hint)]
     ELSE [s |-> s0,
           k |-> Await([k0 EXCEPT !.authCalls = 1], "signUp", "signUp", a)]

signupThrow(s, k, msg) ==
  [s |-> [s EXCEPT !.error = msg, !.loading = FALSE],
   k |-> Finish(k, "rejected", msg, Null)]

\* signup from the await k.pc that was answered
signupResume(s, k) ==
  CASE k.pc = "checkUsername" ->
         CASE k.resp.st = "reject" -> signupThrow(s, k, k.resp.msg)
           [] k.resp.st = "ok" -> signupThrow(s, k, UsernameTaken)
           [] OTHER ->
                [s |-> s,
                 k |-> Await([k EXCEPT !.authCalls = @ + 1], "signUp",
                             "signUp", k.arg)]
    [] k.pc = "signUp" ->
         CASE k.resp.st = "reject" -> signupThrow(s, k, k.resp.msg)
           [] k.resp.st = "err" ->
                signupThrow(s, k, IF k.resp.msg = AlreadyRegistered
                                  THEN UsernameTaken ELSE k.resp.msg)
           [] OTHER -> [s |-> s, k |-> upsertProfileStart(k, k.resp.data)]
    [] InUpsert(k) ->
         LET u == upsertProfile(s, k) IN
         IF ~u.done THEN [s |-> u.s, k |-> u.k]
         ELSE [s |-> [u.s EXCEPT !.loading = FALSE],
               k |-> Finish(u.k, "resolved", "null", u.ret)]

signupStart(t) ==
  /\ mounted
  /\ Free(t)
  /\ \E e \in SignupEmails, h \in UsernameHints :
       LET b == signupBegin(Sess, [email |-> e, hint |-> h]) IN
       /\ Commit(b.s)
       /\ tasks' = [tasks EXCEPT ![t] = b.k]
  /\ budget' = budget - 1
  /\ UNCHANGED <<pages, mounted, backend>>

signup(t) ==
  /\ tasks[t].op = "signup"
  /\ Answered(tasks[t])
  /\ LET n == signupResume(Sess, tasks[t]) IN
       /\ Commit(n.s)
       /\ tasks' = [tasks EXCEPT ![t] = n.k]
  /\ UNCHANGED <<pages, mounted, backend, budget>>

(***************************************************************************)
(* updateProfile                                                           *)
(***************************************************************************)
\* the changes the profile page can ask for
ProfileData == {[name |-> NameN]}

updateProfileBegin(s, d) ==
  LET k0 == [Idle EXCEPT !.op = "updateProfile", !.arg = d] IN
  IF s.currentUser = Null
  THEN [s |-> s, k |-> Finish(k0, "rejected", NotAuthenticated, Null)]
  ELSE [s |-> s,
        k |-> Await([k0 EXCEPT !.user = s.currentUser], "update", "update",
                    [id |-> s.currentUser.id, data |-> d])]

updateProfileResume(s, k) ==
  CASE k.pc = "update" ->
         IF k.resp.st \in {"err", "reject"}
         THEN [s |-> s, k |-> Finish(k, "rejected", k.resp.msg, Null)]
         ELSE [s |-> s, k |-> Await(k, "refetch", "selectById", k.user.id)]
    [] k.pc = "refetch" ->
         LET f == fetchUserProfile(s, k.resp) IN
         [s |-> [f.s EXCEPT !.userProfile = f.ret],
          k |-> Finish(k, "resolved", "null", f.ret)]

updateProfileStart(t) ==
  /\ mounted
  /\ Free(t)
  /\ \E d \in ProfileData :
       LET b == updateProfileBegin(Sess, d) IN
       /\ Commit(b.s)
       /\ tasks' = [tasks EXCEPT ![t] = b.k]
  /\ budget' = budget - 1
  /\ UNCHANGED <<pages, mounted, backend>>

updateProfile(t) ==
  /\ tasks[t].op = "updateProfile"
  /\ Answered(tasks[t])
  /\ LET n == updateProfileResume(Sess, tasks[t]) IN
       /\ Commit(n.s)
       /\ tasks' = [tasks EXCEPT ![t] = n.k]
  /\ UNCHANGED <<pages, mounted, backend, budget>>

(***************************************************************************)
(* The provider's effect: initAuth, the auth-event handler, the cleanup    *)
(***************************************************************************)
\* initAuth from the await k.pc that was answered; m is the flag `mounted`.
\* Every return passes the finally block, which clears loading when mounted.
\* an initAuth whose catch block leaves identity and profile alone
initAuthResume_NoReset(s, k, m) ==
  LET end(s1, k1) ==
        [s |-> IF m THEN [s1 EXCEPT !.loading = FALSE] ELSE s1,
         k |-> Finish(k1, "resolved", "null", k1.ret)]
  IN
  CASE k.pc = "getSession" ->
         IF k.resp.st \in {"err", "reject"}
         THEN end(s, k)
         ELSE IF k.resp.data # Null
         THEN IF ~m THEN end(s, k)
              ELSE [s |-> [s EXCEPT !.currentUser = k.resp.data],
                    k |-> Await([k EXCEPT !.user = k.resp.data], "fetch",
                                "selectById", k.resp.data.id)]
         ELSE IF ~m THEN end(s, k)
              ELSE end([s EXCEPT !.currentUser = Null, !.userProfile = Null],
                       k)
    [] k.pc = "fetch" ->
         LET f == fetchUserProfile(s, k.resp) IN
         IF f.ret = Null
         THEN [s |-> f.s, k |-> upsertProfileStart(k, k.user)]
         ELSE IF ~m THEN end(f.s, k)
              ELSE end([f.s EXCEPT !.userProfile = f.ret], k)
    [] InUpsert(k) ->
         LET u == upsertProfile(s, k) IN
         IF ~u.done THEN [s |-> u.s, k |-> u.k]
         ELSE end(u.s, [u.k EXCEPT !.ret = u.ret])

\* initAuth from the await k.pc that was answered
initAuthResume(s, k, m) ==
  LET end(s1, k1) ==
        [s |-> IF m THEN [s1 EXCEPT !.loading = FALSE] ELSE s1,
         k |-> Finish(k1, "resolved", "null", k1.ret)]
  IN
  CASE k.pc = "getSession" ->
         IF k.resp.st \in {"err", "reject"}
         THEN IF ~m THEN end(s, k)
              ELSE end([s EXCEPT !.currentUser = Null, !.userProfile = Null],
                       k)
         ELSE IF k.resp.data # Null
         THEN IF ~m THEN end(s, k)
              ELSE [s |-> [s EXCEPT !.currentUser = k.resp.data],
                    k |-> Await([k EXCEPT !.user = k.resp.data], "fetch",
                                "selectById", k.resp.data.id)]
         ELSE IF ~m THEN end(s, k)
              ELSE end([s EXCEPT !.currentUser = Null, !.userProfile = Null],
                       k)
    [] k.pc = "fetch" ->
         LET f == fetchUserProfile(s, k.resp) IN
         IF f.ret = Null
         THEN [s |-> f.s, k |-> upsertProfileStart(k, k.user)]
         ELSE IF ~m THEN end(f.s, k)
              ELSE end([f.s EXCEPT !.userProfile = f.ret], k)
    [] InUpsert(k) ->
         LET u == upsertProfile(s, k) IN
         IF ~u.done THEN [s |-> u.s, k |-> u.k]
         ELSE end(u.s, [u.k EXCEPT !.ret = u.ret])

initAuth(t) ==
  /\ tasks[t].op = "initAuth"
  /\ Answered(tasks[t])
  /\ LET n == initAuthResume(Sess, tasks[t], mounted) IN
       /\ Commit(n.s)
       /\ tasks' = [tasks EXCEPT ![t] = n.k]
  /\ UNCHANGED <<pages, mounted, backend, budget>>

\* a callback without the check of `mounted` at its entry
onAuthBegin_NoMountedCheck(s, ev, u, m) ==
  LET k0 == [Idle EXCEPT !.op = "onAuth", !.ev = ev, !.user = u,
                         !.torn = ~m, !.nullSession = (u = Null)] IN
  IF u # Null
  THEN IF ev \in {"SIGNED_IN", "USER_UPDATED"}
       THEN [s |-> [s EXCEPT !.currentUser = u],
             k |-> Await(k0, "fetch", "selectById", u.id)]
       ELSE [s |-> [s EXCEPT !.currentUser = u],
             k |-> Finish(k0, "resolved", "null", Null)]
  ELSE [s |-> [s EXCEPT !.currentUser = Null, !.userProfile = Null],
        k |-> Finish(k0, "resolved", "null", Null)]

\* a callback that keeps the profile when the session is gone
onAuthBegin_KeepProfile(s, ev, u, m) ==
  LET k0 == [Idle EXCEPT !.op = "onAuth", !.ev = ev, !.user = u,
                         !.torn = ~m, !.nullSession = (u = Null)] IN
  IF ~m THEN [s |-> s, k |-> Finish(k0, "resolved", "null", Null)]
  ELSE IF u # Null
  THEN IF ev \in {"SIGNED_IN", "USER_UPDATED"}
       THEN [s |-> [s EXCEPT !.currentUser = u],
             k |-> Await(k0, "fetch", "selectById", u.id)]
       ELSE [s |-> [s EXCEPT !.currentUser = u],
             k |-> Finish(k0, "resolved", "null", Null)]
  ELSE [s |-> [s EXCEPT !.currentUser = Null],
        k |-> Finish(k0, "resolved", "null", Null)]

\* the onAuthStateChange callback up to its first await, for event ev with
\* the session of identity u (Null: no session)
onAuthBegin(s, ev, u, m) ==
  LET k0 == [Idle EXCEPT !.op = "onAuth", !.ev = ev, !.user = u,
                         !.torn = ~m, !.nullSession = (u = Null)] IN
  IF ~m THEN [s |-> s, k |-> Finish(k0, "resolved", "null", Null)]
  ELSE IF u # Null
  THEN IF ev \in {"SIGNED_IN", "USER_UPDATED"}
       THEN [s |-> [s EXCEPT !.currentUser = u],
             k |-> Await(k0, "fetch", "selectById", u.id)]
       ELSE [s |-> [s EXCEPT !.currentUser = u],
             k |-> Finish(k0, "resolved", "null", Null)]
  ELSE [s |-> [s EXCEPT !.currentUser = Null, !.userProfile = Null],
        k |-> Finish(k0, "resolved", "null", Null)]

\* a callback that does not publish the profile it fetched
onAuthResume_NoPublish(s, k, m) ==
  CASE k.pc = "fetch" ->
         LET f == fetchUserProfile(s, k.resp) IN
         IF f.ret = Null \/ k.ev = "SIGNED_IN"
         THEN [s |-> f.s, k |-> upsertProfileStart(k, k.user)]
         ELSE IF ~m THEN [s |-> f.s, k |-> Finish(k, "resolved", "null", Null)]
              ELSE [s |-> f.s,
                    k |-> Finish(k, "resolved", "null", Null)]
    [] InUpsert(k) ->
         LET u == upsertProfile(s, k) IN
         IF ~u.done THEN [s |-> u.s, k |-> u.k]
         ELSE [s |-> u.s, k |-> Finish(u.k, "resolved", "null", u.ret)]

\* the callback from the await k.pc that was answered
onAuthResume(s, k, m) ==
  CASE k.pc = "fetch" ->
         LET f == fetchUserProfile(s, k.resp) IN
         IF f.ret = Null \/ k.ev = "SIGNED_IN"
         THEN [s |-> f.s, k |-> upsertProfileStart(k, k.user)]
         ELSE IF ~m THEN [s |-> f.s, k |-> Finish(k, "resolved", "null", Null)]
              ELSE [s |-> [f.s EXCEPT !.userProfile = f.ret],
                    k |-> Finish(k, "resolved", "null", Null)]
    [] InUpsert(k) ->
         LET u == upsertProfile(s, k) IN
         IF ~u.done THEN [s |-> u.s, k |-> u.k]
         ELSE [s |-> u.s, k |-> Finish(u.k, "resolved", "null", u.ret)]

\* the auth service delivers an event to the callback; the event carries
\* the service's session or none
onAuthStart(t) ==
  /\ Free(t)
  /\ \E ev \in AuthEvents, u \in {session, Null} :
       LET b == onAuthBegin(Sess, ev, u, mounted) IN
       /\ Commit(b.s)
       /\ tasks' = [tasks EXCEPT ![t] = b.k]
  /\ budget' = budget - 1
  /\ UNCHANGED <<pages, mounted, backend>>

onAuth(t) ==
  /\ tasks[t].op = "onAuth"
  /\ Answered(tasks[t])
  /\ LET n == onAuthResume(Sess, tasks[t], mounted) IN
       /\ Commit(n.s)
       /\ tasks' = [tasks EXCEPT ![t] = n.k]
  /\ UNCHANGED <<pages, mounted, backend, budget>>

\* the effect's cleanup: the provider is torn down
Unmount ==
  /\ mounted
  /\ mounted' = FALSE
  /\ UNCHANGED <<pages, client, tasks, backend, budget>>

(***************************************************************************)
(* Specification                                                           *)
(***************************************************************************)
\* what the backend can hold when the page loads: nothing, a password
\* account whose profile row was not created, or the account with its row
\* the Profile page is not rendered
NoStats == [phase |-> "unmounted"]
\* the Auth page is not rendered
NoForm == [phase |-> "unmounted"]
\* the router is not looked at
NoNav == [path |-> "none"]

Registered == EmailUser(MailA, NameB)
Backends ==
  {[accounts |-> {}, profiles |-> <<>>],
   [accounts |-> {Registered}, profiles |-> <<>>],
   [accounts |-> {Registered}, profiles |-> <<NewRow(Registered)>>]}

\* the state after the provider's first render and the synchronous part of
\* its effect: initAuth is suspended on getSession.  The auth service may
\* hold a persisted OAuth session, and a password account may exist.
Init ==
  /\ currentUser = Null
  /\ userProfile = Null
  /\ loading = TRUE
  /\ error = NoError
  /\ mounted = TRUE
  /\ tasks = [t \in Tasks |->
                IF t = 0
                THEN Await([Idle EXCEPT !.op = "initAuth"], "getSession",
                           "getSession", Null)
                ELSE Idle]
  /\ \E b \in Backends : profiles = b.profiles /\ accounts = b.accounts
  /\ session \in {Null, Google1}
  /\ session = Null \/ accounts = {}
  /\ faults = 0
  /\ budget = MaxOps
  /\ stats = NoStats
  /\ form = NoForm
  /\ nav = NoNav

Next ==
  \/ \E t \in Tasks : Serve(t)
  \/ \E t \in Tasks : Fault(t)
  \/ \E t \in Tasks : initAuth(t)
  \/ \E t \in Tasks : onAuthStart(t)
  \/ \E t \in Tasks : onAuth(t)
  \/ \E t \in Tasks : loginStart(t)
  \/ \E t \in Tasks : login(t)
  \/ \E t \in Tasks : signupStart(t)
  \/ \E t \in Tasks : signup(t)
  \/ \E t \in Tasks : logoutStart(t)
  \/ \E t \in Tasks : logout(t)
  \/ \E t \in Tasks : updateProfileStart(t)
  \/ \E t \in Tasks : updateProfile(t)
  \/ Unmount

Spec == Init /\ [][Next]_vars

(***************************************************************************)
(* The reconcile race: an OAuth session is picked up by initAuth and by    *)
(* SIGNED_IN / USER_UPDATED events while the profile page updates the row. *)
(* One more operation than in Spec may start, no call fails and the        *)
(* provider stays mounted.                                                 *)
(***************************************************************************)
InitRace ==
  /\ currentUser = Null
  /\ userProfile = Null
  /\ loading = TRUE
  /\ error = NoError
  /\ mounted = TRUE
  /\ tasks = [t \in Tasks |->
                IF t = 0
                THEN Await([Idle EXCEPT !.op = "initAuth"], "getSession",
                           "getSession", Null)
                ELSE Idle]
  /\ profiles = <<>>
  /\ accounts = {}
  /\ session = Google1
  /\ faults = 0
  /\ budget = MaxOps + 1
  /\ stats = NoStats
  /\ form = NoForm
  /\ nav = NoNav

NextRace ==
  \/ \E t \in Tasks : Serve(t)
  \/ \E t \in Tasks : initAuth(t)
  \/ \E t \in Tasks : onAuthStart(t)
  \/ \E t \in Tasks : onAuth(t)
  \/ \E t \in Tasks : updateProfileStart(t)
  \/ \E t \in Tasks : updateProfile(t)

SpecRace == InitRace /\ [][NextRace]_vars

(***************************************************************************)
(* Properties                                                              *)
(***************************************************************************)
\* task t takes its first step: the operation is invoked
Invoked(t, op) == IsFree(tasks[t]) /\ tasks'[t] # tasks[t] /\ tasks'[t].op = op
\* task t is resumed from an await
Resumed(t) == Answered(tasks[t]) /\ tasks'[t] # tasks[t]
\* task t returns or throws in this step
Ends(t) == tasks[t].pc # "done" /\ tasks'[t].pc = "done"
Done(t, op) == tasks[t].op = op /\ tasks[t].pc = "done"

\* C1: whenever logout ends, whatever the revoke call answered, the Session
\* State is {identity none, profile none, loading false, lastError none}.
C1_LogoutAlwaysClears ==
  [][\A t \in Tasks :
       (tasks[t].op = "logout" /\ Ends(t)) =>
         /\ currentUser' = Null
         /\ userProfile' = Null
         /\ loading' = FALSE
         /\ error' = NoError]_vars

\* C2: logout never rejects to its caller: every logout that has ended has
\* resolved.
C2_LogoutNeverRejects ==
  \A t \in Tasks : Done(t, "logout") => tasks[t].outcome = "resolved"

\* C3: an auth event of any kind, with or without a session, delivered to
\* the callback after the provider was torn down changes none of
\* currentUser, userProfile, loading, error.
C3_LateEventNoWrite ==
  [][\A t \in Tasks :
       (~mounted /\ Invoked(t, "onAuth")) => UNCHANGED client]_vars

\* C3 witness: a callback was invoked after the teardown and has returned.
C3_Witness ==
  \E t \in Tasks : Done(t, "onAuth") /\ tasks[t].torn /\ ~mounted

\* C4: a continuation of initAuth or of the callback that is resumed after
\* the provider was torn down writes none of currentUser, userProfile,
\* loading, error.
C4_NoWriteAfterTeardown ==
  [][\A t \in Tasks :
       (~mounted /\ tasks[t].op \in {"initAuth", "onAuth"} /\ Resumed(t))
         => UNCHANGED client]_vars

C6_ReconcileNeverOverwrites ==
  [][\A i \in 1 .. Len(profiles) :
       profiles[i].name = NameN =>
         (i <= Len(profiles') /\ profiles'[i].name = NameN)]_vars

\* C7: when login was called with a username and no email and the lookup by
\* username found no row, login throws 'Username not found' and has made no
\* call to signInWithPassword.
C7_UnknownUsernameNoAuthCall ==
  [][\A t \in Tasks :
       (/\ tasks[t].op = "login" /\ tasks[t].pc = "lookup"
        /\ tasks[t].resp = Err("PGRST116")
        /\ Resumed(t))
       => /\ tasks'[t].pc = "done"
          /\ tasks'[t].outcome = "rejected"
          /\ tasks'[t].thrown = UsernameNotFound
          /\ tasks'[t].authCalls = 0]_vars

\* C7 witness: a login by username against a store without rows has ended
\* with 'Username not found'.
C7_Witness ==
  \E t \in Tasks :
    /\ Done(t, "login")
    /\ tasks[t].thrown = UsernameNotFound
    /\ tasks[t].authCalls = 0
    /\ profiles = <<>>
    /\ faults = 0

\* C8: when login ends after the auth service accepted the credentials and
\* upsertProfile returned no profile, it rejects with 'Failed to load user
\* profile' and error holds that text; it does not resolve.
C8_LoginFailsWithoutProfile ==
  [][\A t \in Tasks :
       (/\ tasks[t].op = "login" /\ Ends(t)
        /\ tasks'[t].reconciled # 0
        /\ tasks'[t].ret = Null)
       => /\ tasks'[t].outcome = "rejected"
          /\ tasks'[t].thrown = ProfileLoadFailed
          /\ error' = ProfileLoadFailed]_vars

\* C8 witness: a login whose credentials were accepted has ended with the
\* profile-load error.
C8_Witness ==
  \E t \in Tasks :
    /\ Done(t, "login")
    /\ tasks[t].reconciled # 0
    /\ tasks[t].authCalls = 1
    /\ tasks[t].thrown = ProfileLoadFailed

\* C9: a signup called with a username hint that the store holds makes no
\* call to supabase.auth.signUp and, once ended, has thrown the
\* username-taken error.
C9_TakenUsernameNoRegistration ==
  \A t \in Tasks :
    (tasks[t].op = "signup" /\ tasks[t].taken)
    => /\ tasks[t].authCalls = 0
       /\ tasks[t].pc = "done" =>
            (tasks[t].outcome = "rejected" /\ tasks[t].thrown = UsernameTaken)

\* C10: every row of the profile store has a non-empty username.
C10_UsernameNonEmpty ==
  \A i \in 1 .. Len(profiles) : profiles[i].username # Empty

\* C11: no two rows of the profile store share a username.
C11_UsernameUnique ==
  \A i, j \in 1 .. Len(profiles) :
    i # j => profiles[i].username # profiles[j].username

\* u is the text of e before its first '@'
IsTextBeforeAt(u, e) ==
  \E n \in 0 .. (Len(e) - 1) :
    /\ e[n + 1] = "@"
    /\ \A i \in 1 .. n : e[i] # "@"
    /\ u = SubSeq(e, 1, n)

\* C12: when the store serves the upsert of a reconcile for an identity
\* without a username of its own and with a provider other than "email",
\* the row it then holds for that identity has as username the part of the
\* identity's email before the '@'.
C12_DerivedUsername ==
  [][\A t \in Tasks :
       (/\ tasks[t].call = "upsert"
        /\ tasks[t].resp.st = "pending"
        /\ tasks'[t].resp.st = "ok"
        /\ tasks[t].user.username = Empty
        /\ tasks[t].user.provider # "email")
       => \E i \in 1 .. Len(profiles') :
            /\ profiles'[i].id = tasks[t].user.id
            /\ IsTextBeforeAt(profiles'[i].username, tasks[t].user.email)]_vars

\* C12 witness: a reconcile has created the row of the OAuth identity and
\* its username is "b", the text of "b@x" before the '@'.
C12_Witness ==
  /\ \E t \in Tasks : tasks[t].upserted /\ tasks[t].reconciled = Google1.id
  /\ \E i \in 1 .. Len(profiles) :
       /\ profiles[i].id = Google1.id
       /\ profiles[i].provider = "google"
       /\ profiles[i].username = NameB

(***************************************************************************)
(* The statistics of the Profile page.  A calendar date is the number of   *)
(* its day in a year of 365 days whose 1 January is a Thursday; the year   *)
(* is the same for every date and is left out of the date strings.         *)
(***************************************************************************)
MaxSessions == 3
MaxBack == 5

\* a session row without completed_at
NoDate == 0
Durations == {10, 20}
Locales == {"en-US", "en-GB"}
\* Monday 2 February to Sunday 8 February
Todays == 33 .. 39

MonthLen == <<31, 28, 31, 30, 31, 30, 31, 31, 30, 31, 30, 31>>

RECURSIVE DaysBefore(_)
DaysBefore(m) == IF m <= 1 THEN 0 ELSE DaysBefore(m - 1) + MonthLen[m - 1]

getMonth(n) ==
  CHOOSE m \in 1 .. 12 : DaysBefore(m) < n /\ n <= DaysBefore(m) + MonthLen[m]

getDate(n) == n - DaysBefore(getMonth(n))

\* Date.prototype.getDay: 0 is Sunday
getDay(n) == (n + 3) % 7

\* Date.prototype.toLocaleDateString in the locale of the browser:
\* month/day in en-US, day/month in en-GB
toLocaleDateString(n, locale) ==
  IF locale = "en-US"
  THEN <<getMonth(n), getDate(n)>>
  ELSE <<getDate(n), getMonth(n)>>

\* new Date(dateStr) of a string a/b: month a, day b, and an Invalid Date
\* when a is no month
ParseDate(str) ==
  IF str[1] \in 1 .. 12 /\ str[2] \in 1 .. 31
  THEN [valid |-> TRUE, day |-> DaysBefore(str[1]) + str[2]]
  ELSE [valid |-> FALSE, day |-> NoDate]

\* x put behind the rows of the sorted list q that are not later than x
InsertSession(x, q) ==
  LET n == Cardinality({i \in 1 .. Len(q) :
                          q[i].completed_at <= x.completed_at})
  IN SubSeq(q, 1, n) \o <<x>> \o SubSeq(q, n + 1, Len(q))

\* [...sessions].sort by completed_at, ascending; new Date(null) is the epoch
RECURSIVE SortSessions(_)
SortSessions(q) ==
  IF q = <<>> THEN <<>>
  ELSE InsertSession(q[Len(q)], SortSessions(SubSeq(q, 1, Len(q) - 1)))

\* Object.keys(sessionsByDay): the date strings in the order of insertion
RECURSIVE DayKeys(_, _)
DayKeys(q, locale) ==
  IF q = <<>> THEN <<>>
  ELSE LET rest == DayKeys(SubSeq(q, 1, Len(q) - 1), locale)
           row == q[Len(q)]
           dateStr == toLocaleDateString(row.completed_at, locale)
       IN IF row.completed_at = NoDate THEN rest
          ELSE IF \E i \in 1 .. Len(rest) : rest[i] = dateStr THEN rest
          ELSE Append(rest, dateStr)

\* the loop over dates[i], dates[i + 1] from the end of the list
RECURSIVE StreakFrom(_, _, _)
StreakFrom(dates, i, currentStreak) ==
  IF i < 1 THEN currentStreak
  ELSE IF /\ dates[i].valid
          /\ dates[i + 1].valid
          /\ dates[i + 1].day - dates[i].day = 1
       THEN StreakFrom(dates, i - 1, currentStreak + 1)
       ELSE currentStreak

calculateStreakDays(sessions, today, locale) ==
  IF sessions = <<>> THEN 0
  ELSE
    LET keys == DayKeys(SortSessions(sessions), locale)
        dates == [i \in 1 .. Len(keys) |-> ParseDate(keys[i])]
        allValid == \A i \in 1 .. Len(dates) : dates[i].valid
        mostRecentDate ==
          CHOOSE d \in {dates[i].day : i \in 1 .. Len(dates)} :
            \A i \in 1 .. Len(dates) : dates[i].day <= d
        yesterday == today - 1
    IN IF dates = <<>> THEN 0
       ELSE IF allValid /\ mostRecentDate < yesterday THEN 0
       ELSE StreakFrom(dates, Len(dates) - 1, 1)

\* weekDates[i] of the loop, for the buckets Mon .. Sun as 1 .. 7
weekDates(today) ==
  [j \in 1 .. 7 |->
     LET i == j - 1
         currentDay == getDay(today)
         dayOffset == IF i = 6 THEN 0 ELSE i + 1
         diff == currentDay - dayOffset
     IN today - diff]

\* sessions.forEach: the minutes of each row go to the first bucket whose
\* date is the date of the row
RECURSIVE AddSessions(_, _, _)
AddSessions(q, dates, weekData) ==
  IF q = <<>> THEN weekData
  ELSE LET row == q[1]
           hits == {i \in 1 .. 7 : dates[i] = row.completed_at}
           rest == SubSeq(q, 2, Len(q))
       IN IF row.completed_at = NoDate \/ hits = {}
          THEN AddSessions(rest, dates, weekData)
          ELSE LET i == CHOOSE h \in hits : \A g \in hits : h <= g
               IN AddSessions(rest, dates,
                    [weekData EXCEPT ![i] = @ + row.duration_minutes])

\* the minutes of Mon .. Sun the page starts with
EmptyWeek == [j \in 1 .. 7 |-> 0]

calculateWeeklyProgress(sessions, today, weeklyProgressData) ==
  IF sessions = <<>> THEN weeklyProgressData
  ELSE AddSessions(sessions, weekDates(today), EmptyWeek)

\* the rows of meditation_sessions a user may have on a given day
SessionRows(today) ==
  [completed_at : ((today - MaxBack) .. today) \cup {NoDate},
   duration_minutes : Durations]

SessionLists(today) ==
  UNION {[1 .. n -> SessionRows(today)] : n \in 0 .. MaxSessions}

\* the Profile page of a signed-in user before its data is loaded
InitStats ==
  /\ currentUser = Registered
  /\ userProfile = NewRow(Registered)
  /\ loading = FALSE
  /\ error = NoError
  /\ mounted = TRUE
  /\ tasks = [t \in Tasks |-> Idle]
  /\ profiles = <<NewRow(Registered)>>
  /\ accounts = {Registered}
  /\ session = Registered
  /\ faults = 0
  /\ budget = 0
  /\ \E today \in Todays, locale \in Locales :
       \E sessions \in SessionLists(today) :
         stats = [phase |-> "mounted", locale |-> locale, today |-> today,
                  sessions |-> sessions, streak |-> 0, week |-> EmptyWeek]
  /\ form = NoForm
  /\ nav = NoNav

\* fetchUserData with the rows of the user as the answer of the store
fetchUserData ==
  /\ stats.phase = "mounted"
  /\ currentUser # Null
  /\ stats' = [stats EXCEPT
       !.phase = "loaded",
       !.streak = calculateStreakDays(stats.sessions, stats.today,
                                      stats.locale),
       !.week = calculateWeeklyProgress(stats.sessions, stats.today,
                                        stats.week)]
  /\ UNCHANGED <<client, mounted, tasks, backend, budget, form, nav>>

NextStats == fetchUserData

SpecStats == InitStats /\ [][NextStats]_vars

\* the calendar dates on which the user has sessions
SessionDays(sessions) ==
  {sessions[i].completed_at : i \in 1 .. Len(sessions)} \ {NoDate}

\* C13: the streak the page shows is 0 when the user has no session or the
\* most recent date with a session is earlier than yesterday, and otherwise
\* the number of dates with a session in the run of consecutive days that
\* ends at the most recent date with a session, whatever the order of the
\* rows.
C13_StreakDays ==
  stats.phase = "loaded" =>
    LET D == SessionDays(stats.sessions)
        m == CHOOSE d \in D : \A e \in D : e <= d
    IN stats.streak =
         IF D = {} THEN 0
         ELSE IF m < stats.today - 1 THEN 0
         ELSE Cardinality({d \in D : \A e \in d .. m : e \in D})

\* the minutes of the rows of one calendar date
RECURSIVE MinutesOn(_, _)
MinutesOn(q, day) ==
  IF q = <<>> THEN 0
  ELSE (IF q[1].completed_at = day THEN q[1].duration_minutes ELSE 0)
       + MinutesOn(SubSeq(q, 2, Len(q)), day)

\* C14: on every weekday of today, bucket d of Mon .. Sun holds the minutes
\* of exactly the sessions whose date is weekday d of the Monday-to-Sunday
\* week that contains today.
C14_WeeklyBuckets ==
  stats.phase = "loaded" =>
    LET monday == stats.today - ((getDay(stats.today) + 6) % 7)
    IN \A d \in 1 .. 7 :
         stats.week[d] = MinutesOn(stats.sessions, monday + d - 1)

\* C15: when getSession fails, initAuth returns normally and, while the
\* provider is mounted, leaves identity none, profile none and loading false.
C15_InitSurvivesSessionError ==
  [][\A t \in Tasks :
       (/\ tasks[t].op = "initAuth"
        /\ tasks[t].pc = "getSession"
        /\ tasks[t].resp.st \in {"err", "reject"}
        /\ Resumed(t))
       => /\ tasks'[t].pc = "done"
          /\ tasks'[t].outcome = "resolved"
          /\ mounted => /\ currentUser' = Null
                        /\ userProfile' = Null
                        /\ loading' = FALSE]_vars

\* C15 witness: the service holds a session, getSession has failed, no
\* operation was started, and initAuth has ended with a cleared state.
C15_Witness ==
  /\ Done(0, "initAuth")
  /\ tasks[0].outcome = "resolved"
  /\ session # Null
  /\ faults > 0
  /\ budget = MaxOps
  /\ mounted
  /\ currentUser = Null /\ userProfile = Null /\ ~loading

C17_NoSessionClears ==
  [][\A t \in Tasks :
       (Invoked(t, "onAuth") /\ tasks'[t].nullSession /\ mounted)
       => /\ tasks'[t].pc = "done"
          /\ currentUser' = Null
          /\ userProfile' = Null]_vars

\* C17 witness: initAuth has published identity and profile of the session,
\* and a callback for an event without a session has then cleared both.
C17_Witness ==
  \E t \in Tasks :
    /\ Done(t, "onAuth")
    /\ tasks[t].nullSession
    /\ ~tasks[t].torn
    /\ Done(0, "initAuth")
    /\ tasks[0].reconciled # 0
    /\ tasks[0].ret # Null
    /\ currentUser = Null /\ userProfile = Null

\* C18: a task in whose reconcile a fetch or the upsert has failed ends with
\* lastError set and with no profile returned by the reconcile.
C18_ReconcileFailureYieldsNone ==
  [][\A t \in Tasks :
       (Ends(t) /\ tasks'[t].upFault)
       => /\ error' # NoError
          /\ tasks'[t].ret = Null]_vars

(***************************************************************************)
(* Startup with a persisted session: initAuth runs next to the callbacks   *)
(* the auth service invokes for that session.  No call fails, no other     *)
(* operation is started and the provider stays mounted.                    *)
(***************************************************************************)
SessionEvents == AuthEvents \ {"SIGNED_OUT"}

\* the auth service delivers an event that carries its session
onSessionEvent(t) ==
  /\ Free(t)
  /\ session # Null
  /\ \E ev \in SessionEvents :
       LET b == onAuthBegin(Sess, ev, session, mounted) IN
       /\ Commit(b.s)
       /\ tasks' = [tasks EXCEPT ![t] = b.k]
  /\ budget' = budget - 1
  /\ UNCHANGED <<pages, mounted, backend>>

InitStartup ==
  /\ currentUser = Null
  /\ userProfile = Null
  /\ loading = TRUE
  /\ error = NoError
  /\ mounted = TRUE
  /\ tasks = [t \in Tasks |->
                IF t = 0
                THEN Await([Idle EXCEPT !.op = "initAuth"], "getSession",
                           "getSession", Null)
                ELSE Idle]
  /\ profiles \in {<<>>, <<NewRow(Google1)>>}
  /\ accounts = {}
  /\ session = Google1
  /\ faults = 0
  /\ budget = MaxOps
  /\ stats = NoStats
  /\ form = NoForm
  /\ nav = NoNav

NextStartup ==
  \/ \E t \in Tasks : Serve(t)
  \/ \E t \in Tasks : initAuth(t)
  \/ \E t \in Tasks : onSessionEvent(t)
  \/ \E t \in Tasks : onAuth(t)

SpecStartup == InitStartup /\ [][NextStartup]_vars

ResetEmails == {MailA, MailB}
NewPasswords == {"secret1", "secret2"}

\* resetPassword and updatePassword up to their await; the session state at
\* the call is kept in the locals
passwordBegin(s, op, call, a) ==
  [s |-> [s EXCEPT !.loading = TRUE, !.error = NoError],
   k |-> Await([Idle EXCEPT !.op = op, !.arg = [before |-> s]],
               "call", call, a)]

\* password operations that do not throw the error of the service
passwordResume_Swallow(s, k) ==
  IF k.resp.st \in {"err", "reject"}
  THEN [s |-> [s EXCEPT !.error = k.resp.msg, !.loading = FALSE],
        k |-> Finish(k, "resolved", "null", Null)]
  ELSE [s |-> [s EXCEPT !.loading = FALSE],
        k |-> Finish(k, "resolved", "null", Null)]

\* resetPassword and updatePassword from their await
passwordResume(s, k) ==
  IF k.resp.st \in {"err", "reject"}
  THEN [s |-> [s EXCEPT !.error = k.resp.msg, !.loading = FALSE],
        k |-> Finish(k, "rejected", k.resp.msg, Null)]
  ELSE [s |-> [s EXCEPT !.loading = FALSE],
        k |-> Finish(k, "resolved", "null", Null)]

resetPasswordStart(t) ==
  /\ mounted
  /\ Free(t)
  /\ \E email \in ResetEmails :
       LET b == passwordBegin(Sess, "resetPassword", "resetPasswordForEmail",
                              email) IN
       /\ Commit(b.s)
       /\ tasks' = [tasks EXCEPT ![t] = b.k]
  /\ budget' = budget - 1
  /\ UNCHANGED <<pages, mounted, backend>>

resetPassword(t) ==
  /\ tasks[t].op = "resetPassword"
  /\ Answered(tasks[t])
  /\ LET n == passwordResume(Sess, tasks[t]) IN
       /\ Commit(n.s)
       /\ tasks' = [tasks EXCEPT ![t] = n.k]
  /\ UNCHANGED <<pages, mounted, backend, budget>>

updatePasswordStart(t) ==
  /\ mounted
  /\ Free(t)
  /\ \E newPassword \in NewPasswords :
       LET b == passwordBegin(Sess, "updatePassword", "updateUser",
                              newPassword) IN
       /\ Commit(b.s)
       /\ tasks' = [tasks EXCEPT ![t] = b.k]
  /\ budget' = budget - 1
  /\ UNCHANGED <<pages, mounted, backend>>

updatePassword(t) ==
  /\ tasks[t].op = "updatePassword"
  /\ Answered(tasks[t])
  /\ LET n == passwordResume(Sess, tasks[t]) IN
       /\ Commit(n.s)
       /\ tasks' = [tasks EXCEPT ![t] = n.k]
  /\ UNCHANGED <<pages, mounted, backend, budget>>

InitPassword ==
  /\ \/ currentUser = Null /\ userProfile = Null /\ session = Null
     \/ /\ currentUser = Registered
        /\ userProfile = NewRow(Registered)
        /\ session = Registered
  /\ loading = FALSE
  /\ error \in {NoError, InvalidCredentials}
  /\ mounted = TRUE
  /\ tasks = [t \in Tasks |->
                IF t = 0
                THEN Finish([Idle EXCEPT !.op = "initAuth"], "resolved",
                            "null", Null)
                ELSE Idle]
  /\ profiles = <<NewRow(Registered)>>
  /\ accounts = {Registered}
  /\ faults = 0
  /\ budget = MaxOps + 1
  /\ stats = NoStats
  /\ form = NoForm
  /\ nav = NoNav

NextPassword ==
  \/ \E t \in Tasks : Serve(t)
  \/ \E t \in Tasks : Fault(t)
  \/ \E t \in Tasks : resetPasswordStart(t)
  \/ \E t \in Tasks : resetPassword(t)
  \/ \E t \in Tasks : updatePasswordStart(t)
  \/ \E t \in Tasks : updatePassword(t)

SpecPassword == InitPassword /\ [][NextPassword]_vars

PasswordOps == {"resetPassword", "updatePassword"}

\* C20 as stated: a password operation rejects with the error of the service
\* and sets lastError to its message, and when the service succeeds it
\* resolves with the session state equal to the one before the call.
C20_PasswordOpsNoStateChange ==
  [][\A t \in Tasks :
       (tasks[t].op \in PasswordOps /\ Resumed(t) /\ Ends(t))
       => IF tasks[t].resp.st = "ok"
          THEN /\ tasks'[t].outcome = "resolved"
               /\ Sess' = tasks[t].arg.before
          ELSE /\ tasks'[t].outcome = "rejected"
               /\ tasks'[t].thrown = tasks[t].resp.msg
               /\ error' = tasks[t].resp.msg]_vars

\* C20 amended: a password operation rejects with the error of the service
\* and sets lastError to its message; when the service succeeds it resolves
\* having changed neither identity nor profile: it only sets lastError to
\* none and loading to true when it starts and loading to false when it ends.
C20_PasswordOpsKeepIdentity ==
  [][\A t \in Tasks :
       /\ (\E op \in PasswordOps : Invoked(t, op))
          => /\ currentUser' = currentUser
             /\ userProfile' = userProfile
             /\ error' = NoError
             /\ loading' = TRUE
       /\ (tasks[t].op \in PasswordOps /\ Resumed(t) /\ Ends(t))
          => IF tasks[t].resp.st = "ok"
             THEN /\ tasks'[t].outcome = "resolved"
                  /\ currentUser' = tasks[t].arg.before.currentUser
                  /\ userProfile' = tasks[t].arg.before.userProfile
                  /\ error' = error
                  /\ loading' = FALSE
             ELSE /\ tasks'[t].outcome = "rejected"
                  /\ tasks'[t].thrown = tasks[t].resp.msg
                  /\ error' = tasks[t].resp.msg]_vars

\* C20 witness: a password operation of a signed-in user has resolved after
\* an earlier one had failed; identity and profile are in place and the
\* error of the failed one is gone.
C20_Witness ==
  \E t \in Tasks :
    /\ tasks[t].op \in PasswordOps
    /\ tasks[t].pc = "done"
    /\ tasks[t].outcome = "resolved"
    /\ faults > 0
    /\ currentUser = Registered
    /\ userProfile = NewRow(Registered)
    /\ error = NoError
    /\ ~loading

(***************************************************************************)
(* Sign-up at startup: the provider of Spec with signup as the only        *)
(* operation.  The auth service registers the account and waits for the    *)
(* confirmation of its email: it opens no session and sends no event.      *)
(***************************************************************************)
NextSignup ==
  \/ \E t \in Tasks : Serve(t)
  \/ \E t \in Tasks : Fault(t)
  \/ \E t \in Tasks : initAuth(t)
  \/ \E t \in Tasks : signupStart(t)
  \/ \E t \in Tasks : signup(t)

SpecSignup == Init /\ [][NextSignup]_vars

\* C23: the profile is none or the profile of the current identity.
C23_ProfileBelongsToIdentity ==
  userProfile # Null =>
    /\ currentUser # Null
    /\ userProfile.id = currentUser.id

\* C24: when login resolves, lastError is none.
C24_LoginSuccessNoError ==
  [][\A t \in Tasks :
       (/\ tasks[t].op = "login"
        /\ Ends(t)
        /\ tasks'[t].outcome = "resolved")
       => error' = NoError]_vars

\* the operations of the provider that raise and lower `loading`
LoadingOps ==
  {"initAuth", "signup", "login", "logout", "resetPassword",
   "updatePassword", "signInWithGoogle"}

\* task t has been invoked and has not yet returned or thrown
InFlight(t) == ~IsFree(tasks[t])

\* C26: loading is true while an operation that raises it is in flight.
C26_LoadingWhileInFlight ==
  (\E t \in Tasks : InFlight(t) /\ tasks[t].op \in LoadingOps) => loading

\* what a protected route renders: its children, or a redirect to /auth
ProtectedRoute(user) == IF user = Null THEN "/auth" ELSE "children"

\* C28: while initAuth is in flight with loading true and the auth service
\* holds a session, a protected route does not redirect to /auth.
C28_NoRedirectWhileLoading ==
  (/\ tasks[0].op = "initAuth"
   /\ InFlight(0)
   /\ loading
   /\ session # Null)
  => ProtectedRoute(currentUser) # "/auth"

\* C30: updateProfile either rejects and leaves the profile as it was, or
\* resolves with the re-fetched row of the current identity and has made it
\* the profile.
C30_UpdateProfileKeepsProfile ==
  [][\A t \in Tasks :
       ((Invoked(t, "updateProfile") \/ tasks[t].op = "updateProfile")
        /\ Ends(t))
       => IF tasks'[t].outcome = "rejected"
          THEN userProfile' = userProfile
          ELSE /\ tasks'[t].ret # Null
               /\ userProfile' = tasks'[t].ret
               /\ currentUser' # Null
               /\ tasks'[t].ret.id = currentUser'.id]_vars


(***************************************************************************)
(* The sign-up form of the Auth page (components/Auth.jsx)                 *)
(***************************************************************************)
\* usernames typed into the form: one that a stored profile has, one that
\* nobody has, and one too short to be looked up
TakenName == <<"b", "o", "b">>
FreeName == <<"b", "e", "n">>
ShortName == <<"b", "o">>

\* texts of Auth.jsx
NameTakenText == "Username already taken"
FixErrorsToast == "Please fix the validation errors before continuing"
MismatchToast == "Passwords do not match"
TooShortToast == "Password must be at least 6 characters"

\* the account whose profile holds TakenName, registered with MailB
Bob == [id |-> 2, email |-> MailB, provider |-> "email", username |-> TakenName]

\* a slot of the task table is free for a call made by a page
PageSlot(t) ==
  /\ budget > 0
  /\ IsFree(tasks[t])
  /\ \A u \in 0 .. (t - 1) : ~IsFree(tasks[u])

\* the form as the page shows it in sign-up mode; the email field has been
\* validated already (checkEmailAvailability), the username field is empty
SignupForm(email, pw) ==
  [phase |-> "signup", name |-> Empty, email |-> email,
   password |-> pw[1], confirmPassword |-> pw[2],
   errName |-> "",
   errEmail |-> IF \E r \in 1 .. Len(profiles) : profiles[r].email = email
                THEN "Email already used" ELSE "",
   timer |-> {}, toast |-> "", submits |-> 0, awaits |-> {}]

\* handleInputChange on the username field, and the debounce effect that
\* follows the render: the pending timer is cleared and one for v is set
handleInputChange(v) ==
  /\ form.phase = "signup"
  /\ v # form.name
  /\ form' = [form EXCEPT !.name = v,
                          !.timer = IF v # Empty THEN {v} ELSE {}]
  /\ UNCHANGED <<stats, nav, client, mounted, tasks, backend, budget>>

\* the debounce timer fires: checkUsernameAvailability(v) up to its await
checkUsernameStart(t) ==
  /\ form.phase = "signup"
  /\ \E v \in form.timer :
       IF Len(v) < 3
       THEN /\ form' = [form EXCEPT !.timer = {}]
            /\ t = 0
            /\ UNCHANGED <<tasks, budget>>
       ELSE /\ PageSlot(t)
            /\ form' = [form EXCEPT !.timer = {}]
            /\ tasks' = [tasks EXCEPT ![t] =
                           Await([Idle EXCEPT !.op = "checkUsername", !.arg = v],
                                 "lookup", "selectByUsername", v)]
            /\ budget' = budget - 1
  /\ UNCHANGED <<stats, nav, client, mounted, backend>>

\* checkUsernameAvailability after its await: the answer becomes the
\* validation error of the username field
checkUsernameAvailability(t) ==
  /\ tasks[t].op = "checkUsername"
  /\ Answered(tasks[t])
  /\ form' = IF form.phase = "unmounted" THEN form
             ELSE [form EXCEPT !.errName =
                                 IF tasks[t].resp.st = "ok" /\ tasks[t].resp.data # Null
                                 THEN NameTakenText ELSE ""]
  /\ tasks' = [tasks EXCEPT ![t] = Finish(tasks[t], "resolved", "null", Null)]
  /\ UNCHANGED <<stats, nav, client, mounted, backend, budget>>

\* handleSubmit in sign-up mode, up to its return or its await of signup:
\* go says whether signup is called, toast is the message shown
handleSubmit_NoPasswordCheck(f) ==
  IF f.errName # "" \/ f.errEmail # ""
  THEN [go |-> FALSE, toast |-> FixErrorsToast]
  ELSE [go |-> TRUE, toast |-> f.toast]

handleSubmitBegin(f) ==
  IF f.errName # "" \/ f.errEmail # ""
  THEN [go |-> FALSE, toast |-> FixErrorsToast]
  ELSE IF f.password # f.confirmPassword
  THEN [go |-> FALSE, toast |-> MismatchToast]
  ELSE IF Len(f.password) < 6
  THEN [go |-> FALSE, toast |-> TooShortToast]
  ELSE [go |-> TRUE, toast |-> f.toast]

handleSubmitStart(t) ==
  /\ form.phase = "signup"
  /\ form.awaits = {}
  /\ PageSlot(t)
  /\ LET h == handleSubmitBegin(form) IN
       IF h.go
       THEN LET b == signupBegin(Sess, [email |-> form.email, hint |-> form.name]) IN
            /\ Commit(b.s)
            /\ tasks' = [tasks EXCEPT ![t] = b.k]
            /\ form' = [form EXCEPT !.submits = @ + 1, !.awaits = {t}]
       ELSE /\ form' = [form EXCEPT !.submits = @ + 1, !.toast = h.toast]
            /\ UNCHANGED <<client, tasks>>
  /\ budget' = budget - 1
  /\ UNCHANGED <<stats, nav, mounted, backend>>

\* handleSubmit after signup has settled: the form goes back to login mode
\* when the account was created, and shows the failure otherwise
handleSubmit(t) ==
  /\ t \in form.awaits
  /\ tasks[t].op = "signup"
  /\ tasks[t].pc = "done"
  /\ form' = IF tasks[t].outcome = "resolved"
             THEN [form EXCEPT !.phase = "login", !.name = Empty,
                               !.email = Empty, !.password = Empty,
                               !.confirmPassword = Empty, !.timer = {},
                               !.toast = "Account created! Please check your email for confirmation link.",
                               !.awaits = {}]
             ELSE [form EXCEPT !.toast = IF tasks[t].thrown = UsernameTaken
                                         THEN "Email already used or username already taken."
                                         ELSE tasks[t].thrown,
                               !.awaits = {}]
  /\ UNCHANGED <<stats, nav, client, mounted, tasks, backend, budget>>

\* the Auth page in sign-up mode under a provider that found no session;
\* the password has five or six characters and its confirmation may differ
InitForm ==
  /\ currentUser = Null /\ userProfile = Null
  /\ loading = FALSE /\ error = NoError
  /\ mounted = TRUE
  /\ tasks = [t \in Tasks |-> Idle]
  /\ profiles = <<NewRow(Bob)>> /\ accounts = {Bob} /\ session = Null
  /\ faults = 0
  /\ budget = MaxOps + 1
  /\ stats = NoStats /\ nav = NoNav
  /\ LET short == <<"s", "e", "c", "r", "e">>
         good == <<"s", "e", "c", "r", "e", "t">>
         other == <<"s", "e", "c", "r", "e", "u">>
     IN \E e \in {MailA, MailB},
           pw \in {<<good, good>>, <<good, other>>, <<short, short>>} :
          form = SignupForm(e, pw)

NextForm ==
  \/ \E v \in {TakenName, FreeName, ShortName} : handleInputChange(v)
  \/ \E t \in Tasks : checkUsernameStart(t)
  \/ \E t \in Tasks : checkUsernameAvailability(t)
  \/ \E t \in Tasks : handleSubmitStart(t)
  \/ \E t \in Tasks : handleSubmit(t)
  \/ \E t \in Tasks : signup(t)
  \/ \E t \in Tasks : Serve(t)

SpecForm == InitForm /\ [][NextForm]_vars

\* C21: a sign-up submission whose password differs from its confirmation,
\* whose password has fewer than six characters, or whose username or email
\* field shows a validation error, makes no call of signup: no task starts,
\* and neither the provider's state nor the backend changes.
C21_RefusedSubmitCallsNothing ==
  [][(/\ form.phase = "signup"
      /\ form'.submits = form.submits + 1
      /\ \/ form.password # form.confirmPassword
         \/ Len(form.password) < 6
         \/ form.errName # ""
         \/ form.errEmail # "")
     => /\ tasks' = tasks
        /\ UNCHANGED <<client, backend>>]_vars

\* a submission was refused for its passwords and no signup was ever called
C21_Witness ==
  /\ form.submits > 0
  /\ form.toast \in {MismatchToast, TooShortToast}
  /\ \A t \in Tasks : tasks[t].op # "signup"

\* C29: once the debounce timer has fired and every lookup has answered, the
\* username field shows "Username already taken" exactly when a stored
\* profile has the username now in the field.
C29_ErrorMatchesLatestName ==
  (/\ form.phase = "signup"
   /\ Len(form.name) >= 3
   /\ form.timer = {}
   /\ form.awaits = {}
   /\ form.submits = 0
   /\ \A t \in Tasks : IsFree(tasks[t]))
  => (form.errName = NameTakenText <=> RowsByUsername(form.name) # <<>>)


(***************************************************************************)
(* Login with the SIGNED_IN event.  The auth client calls the subscribed   *)
(* auth-event handler with SIGNED_IN before the promise of                 *)
(* signInWithPassword resolves, so the handler runs up to its first await  *)
(* before login is resumed.  The provider has finished initAuth without a  *)
(* session and stays mounted; only login is invoked.                       *)
(***************************************************************************)
\* a handler that leaves the identity alone
onSignedIn_NoIdentity(s, u, m) ==
  [s |-> s, k |-> onAuthBegin(s, "SIGNED_IN", u, m).k]

\* the handler subscribed at 411 is called with SIGNED_IN and the session
\* of user u, and runs up to its first await
onSignedIn(s, u, m) == onAuthBegin(s, "SIGNED_IN", u, m)

\* the auth service answers signInWithPassword of task t; when it opens a
\* session the handler is called in the same step
signInWithPassword(t) ==
  /\ tasks[t].resp.st = "pending"
  /\ tasks[t].call = "signInWithPassword"
  /\ LET r == ServeResult(tasks[t]) IN
       /\ IF r.resp.st = "ok"
          THEN \E h \in Tasks :
                 /\ IsFree(tasks[h])
                 /\ \A u \in 0 .. (h - 1) : ~IsFree(tasks[u])
                 /\ LET b == onSignedIn(Sess, r.resp.data, mounted) IN
                      /\ Commit(b.s)
                      /\ tasks' = [tasks EXCEPT ![t].resp = r.resp, ![h] = b.k]
          ELSE /\ tasks' = [tasks EXCEPT ![t].resp = r.resp]
               /\ UNCHANGED client
       /\ profiles' = r.profiles
       /\ accounts' = r.accounts
       /\ session' = r.session
  /\ UNCHANGED <<pages, mounted, faults, budget>>

InitLogin ==
  /\ currentUser = Null /\ userProfile = Null
  /\ loading = FALSE
  /\ error = NoError
  /\ mounted = TRUE
  /\ tasks = [t \in Tasks |->
                IF t = 0
                THEN Finish([Idle EXCEPT !.op = "initAuth"], "resolved",
                            "null", Null)
                ELSE Idle]
  /\ \E b \in Backends : profiles = b.profiles /\ accounts = b.accounts
  /\ session = Null
  /\ faults = 0
  /\ budget = MaxOps + 1
  /\ stats = NoStats /\ form = NoForm /\ nav = NoNav

NextLogin ==
  \/ \E t \in Tasks : signInWithPassword(t)
  \/ \E t \in Tasks : tasks[t].call # "signInWithPassword" /\ Serve(t)
  \/ \E t \in Tasks : Fault(t)
  \/ \E t \in Tasks : loginStart(t)
  \/ \E t \in Tasks : login(t)
  \/ \E t \in Tasks : onAuth(t)

SpecLogin == InitLogin /\ [][NextLogin]_vars

CallbackPath == "/auth/callback"
AuthPath == "/auth"
\* GOOGLE_AUTH_CONFIG.defaultRedirectPath
DefaultRedirectPath == "/meditation"

\* the page as first rendered, for a URL with or without a hash fragment, a
\* code parameter and an error parameter
CallbackPage(hash, code, err) ==
  [path |-> CallbackPath, hash |-> hash, code |-> code, err |-> err,
   ran |-> FALSE, dep |-> Null, started |-> 0,
   timers |-> {}, issued |-> {},
   pageError |-> NoError, pageLoading |-> TRUE]

\* navigate(to) called by run r of the handler; sess tells whether that
\* run's session query returned a session
Navigation(r, to, sess) == [run |-> r, to |-> to, sess |-> sess]
navigate(n, v) ==
  [n EXCEPT !.path = v.to, !.issued = @ \cup {v}]

\* setTimeout(() => navigate(to), ms)
setTimeout(n, v, ms) ==
  [n EXCEPT !.timers = @ \cup {[nav |-> v, ms |-> ms]}]

\* the effect runs handleAuthCallback up to its await or its return
handleAuthCallbackStart(t) ==
  /\ nav.path = CallbackPath
  /\ ~nav.ran \/ nav.dep # currentUser
  /\ PageSlot(t)
  /\ LET r == nav.started + 1
         n == [nav EXCEPT !.ran = TRUE, !.dep = currentUser, !.started = r]
         k == [Idle EXCEPT !.op = "handleAuthCallback", !.arg = [run |-> r]]
     IN IF currentUser # Null \/ nav.hash \/ nav.code
        THEN /\ tasks' = [tasks EXCEPT ![t] =
                            Await(k, "getSession", "getSession", Null)]
             /\ nav' = n
        ELSE /\ tasks' = [tasks EXCEPT ![t] =
                            Finish(k, "resolved", "null", Null)]
             /\ nav' = [navigate(n, Navigation(r, AuthPath, FALSE))
                          EXCEPT !.pageLoading = FALSE]
  /\ budget' = budget - 1
  /\ UNCHANGED <<stats, form, client, mounted, backend>>

\* a handler that sends every path to the default redirect path
handleAuthCallback_AlwaysIn(n, k) ==
  [setTimeout(n, Navigation(k.arg.run, DefaultRedirectPath,
                            k.resp.st = "ok" /\ k.resp.data # Null), 500)
     EXCEPT !.pageLoading = FALSE]

\* handleAuthCallback after getSession has answered, on page state n
handleAuthCallbackResume(n, k) ==
  LET r == k.arg.run
      m == IF k.resp.st \in {"err", "reject"}
           THEN setTimeout([n EXCEPT !.pageError = k.resp.msg],
                           Navigation(r, AuthPath, FALSE), 2000)
           ELSE IF k.resp.data # Null
           THEN setTimeout(n, Navigation(r, DefaultRedirectPath, TRUE), 500)
           ELSE IF n.err
           THEN setTimeout([n EXCEPT !.pageError = "Authentication error"],
                           Navigation(r, AuthPath, FALSE), 2000)
           ELSE navigate(n, Navigation(r, AuthPath, FALSE))
  IN [m EXCEPT !.pageLoading = FALSE]

handleAuthCallback(t) ==
  /\ tasks[t].op = "handleAuthCallback"
  /\ Answered(tasks[t])
  /\ nav' = handleAuthCallbackResume(nav, tasks[t])
  /\ tasks' = [tasks EXCEPT ![t] = Finish(tasks[t], "resolved", "null", Null)]
  /\ UNCHANGED <<stats, form, client, mounted, backend, budget>>

\* a timer set by the handler fires
timerFires ==
  /\ \E x \in nav.timers :
       nav' = navigate([nav EXCEPT !.timers = @ \ {x}], x.nav)
  /\ UNCHANGED <<stats, form, client, mounted, tasks, backend, budget>>

InitCallback ==
  /\ currentUser = Null /\ userProfile = Null
  /\ loading = TRUE
  /\ error = NoError
  /\ mounted = TRUE
  /\ tasks = [t \in Tasks |->
                IF t = 0
                THEN Await([Idle EXCEPT !.op = "initAuth"], "getSession",
                           "getSession", Null)
                ELSE Idle]
  /\ accounts = {}
  /\ profiles \in {<<>>, <<NewRow(Google1)>>}
  /\ session \in {Null, Google1}
  /\ faults = 0
  /\ budget = MaxOps + 1
  /\ stats = NoStats /\ form = NoForm
  /\ \E hash \in BOOLEAN, code \in BOOLEAN, err \in BOOLEAN :
       nav = CallbackPage(hash, code, err)

NextCallback ==
  \/ \E t \in Tasks : Serve(t)
  \/ \E t \in Tasks : Fault(t)
  \/ \E t \in Tasks : initAuth(t)
  \/ \E t \in Tasks : handleAuthCallbackStart(t)
  \/ \E t \in Tasks : handleAuthCallback(t)
  \/ timerFires

\* every external call returns, every answered coroutine is resumed and
\* every timer fires
LiveCallback ==
  /\ InitCallback /\ [][NextCallback]_vars
  /\ \A t \in Tasks : WF_vars(Serve(t))
  /\ \A t \in Tasks : WF_vars(initAuth(t))
  /\ \A t \in Tasks : WF_vars(handleAuthCallback(t))
  /\ WF_vars(timerFires)

\* C22: every run of the callback handler eventually issues a navigation;
\* a navigation issued or scheduled goes to the default redirect path
\* /meditation only if the run's session query returned a session, and to
\* /auth otherwise.
C22_CallbackAlwaysNavigates ==
  /\ [](\A x \in nav.issued \cup {y.nav : y \in nav.timers} :
          /\ x.to = DefaultRedirectPath => x.sess
          /\ ~x.sess => x.to = AuthPath)
  /\ \A r \in 1 .. (MaxOps + 1) :
       (nav.started >= r) ~> (\E x \in nav.issued : x.run = r)

\* one run found a session and went to /meditation, another went to /auth
C22_Witness ==
  /\ \E x \in nav.issued : x.to = DefaultRedirectPath /\ x.sess
  /\ \E x \in nav.issued : x.to = AuthPath /\ ~x.sess


(***************************************************************************)
(* signInWithGoogle, and the termination of the provider's operations      *)
(***************************************************************************)
\* a signInWithGoogle whose success path leaves loading raised
signInWithGoogle_NoFinally(s, k) ==
  IF k.resp.st \in {"err", "reject"}
  THEN [s |-> [s EXCEPT !.error = k.resp.msg, !.loading = FALSE],
        k |-> Finish(k, "rejected", k.resp.msg, Null)]
  ELSE [s |-> s, k |-> Finish(k, "resolved", "null", k.resp.data)]

\* signInWithGoogle from its await
signInWithGoogleResume(s, k) ==
  IF k.resp.st \in {"err", "reject"}
  THEN [s |-> [s EXCEPT !.error = k.resp.msg, !.loading = FALSE],
        k |-> Finish(k, "rejected", k.resp.msg, Null)]
  ELSE [s |-> [s EXCEPT !.loading = FALSE],
        k |-> Finish(k, "resolved", "null", k.resp.data)]

\* signInWithGoogle up to its await
signInWithGoogleStart(t) ==
  /\ mounted
  /\ Free(t)
  /\ Commit([Sess EXCEPT !.loading = TRUE, !.error = NoError])
  /\ tasks' = [tasks EXCEPT ![t] =
                 Await([Idle EXCEPT !.op = "signInWithGoogle"], "call",
                       "signInWithOAuth", Null)]
  /\ budget' = budget - 1
  /\ UNCHANGED <<pages, mounted, backend>>

\* on success the browser is sent to the provider's URL
signInWithGoogle(t) ==
  /\ tasks[t].op = "signInWithGoogle"
  /\ Answered(tasks[t])
  /\ LET n == signInWithGoogleResume(Sess, tasks[t]) IN
       /\ Commit(n.s)
       /\ tasks' = [tasks EXCEPT ![t] = n.k]
       /\ nav' = IF n.k.outcome = "resolved" /\ n.k.ret # Null
                 THEN [nav EXCEPT !.path = n.k.ret.url]
                 ELSE nav
  /\ UNCHANGED <<stats, form, mounted, backend, budget>>

\* the provider after initAuth, signed in or not
InitOps ==
  /\ \/ currentUser = Null /\ userProfile = Null /\ session = Null
     \/ /\ currentUser = Registered
        /\ userProfile = NewRow(Registered)
        /\ session = Registered
  /\ loading = FALSE
  /\ error = NoError
  /\ mounted = TRUE
  /\ tasks = [t \in Tasks |->
                IF t = 0
                THEN Finish([Idle EXCEPT !.op = "initAuth"], "resolved",
                            "null", Null)
                ELSE Idle]
  /\ profiles = <<NewRow(Registered)>>
  /\ accounts = {Registered}
  /\ faults = 0
  /\ budget = MaxOps + 1
  /\ stats = NoStats /\ form = NoForm /\ nav = NoNav

NextOps ==
  \/ \E t \in Tasks : Serve(t)
  \/ \E t \in Tasks : Fault(t)
  \/ \E t \in Tasks : signupStart(t)
  \/ \E t \in Tasks : signup(t)
  \/ \E t \in Tasks : loginStart(t)
  \/ \E t \in Tasks : login(t)
  \/ \E t \in Tasks : logoutStart(t)
  \/ \E t \in Tasks : logout(t)
  \/ \E t \in Tasks : resetPasswordStart(t)
  \/ \E t \in Tasks : resetPassword(t)
  \/ \E t \in Tasks : updatePasswordStart(t)
  \/ \E t \in Tasks : updatePassword(t)
  \/ \E t \in Tasks : signInWithGoogleStart(t)
  \/ \E t \in Tasks : signInWithGoogle(t)

\* every external call returns and every answered coroutine is resumed
LiveOps ==
  /\ InitOps /\ [][NextOps]_vars
  /\ \A t \in Tasks : WF_vars(Serve(t))
  /\ \A t \in Tasks : WF_vars(signup(t))
  /\ \A t \in Tasks : WF_vars(login(t))
  /\ \A t \in Tasks : WF_vars(logout(t))
  /\ \A t \in Tasks : WF_vars(resetPassword(t))
  /\ \A t \in Tasks : WF_vars(updatePassword(t))
  /\ \A t \in Tasks : WF_vars(signInWithGoogle(t))

====
